---- MODULE Spec2Model ----
(***************************************************************************)
(* Model of src/src/deep_research.py: DeepResearchAssistant (constructor,  *)
(* search_web, ask_ai, research_topic, deeper_research_topic,              *)
(* save_research) and the interactive loop of main().                      *)
(*                                                                         *)
(* Representation of Python values                                         *)
(*  - a str is a sequence of pieces; a piece is one character (" ", "\n",  *)
(*    "\t", "\"", "A", ...) or a run of characters that neither starts nor *)
(*    ends with whitespace or a double quote (a word such as               *)
(*    "Error: Could not get AI response"), so that str.strip acts on       *)
(*    pieces exactly as it acts on characters;                             *)
(*  - the text of a search result is [none, len]: whether it is None and   *)
(*    its length; the code only tests it for truth, takes len() of it and  *)
(*    slices a prefix of it;                                               *)
(*  - a dict is a record; "key in dict" is "key \in DOMAIN record".        *)
(***************************************************************************)
EXTENDS Integers, Sequences, FiniteSets, TLC

VARIABLES
    env,              \* os.environ: EXA_API_KEY and CEREBRAS_API_KEY
    pc,               \* position of main()
    exa_client,       \* self.exa_client
    cerebras_client,  \* self.cerebras_client
    error,            \* the exception main() caught (or "none")
    choice,           \* main(): choice
    query,            \* main(): query, the argument of the research call
    results,          \* research functions: results (layer 1 raw results)
    follow_results,   \* deeper_research_topic: follow_results
    sources,          \* research functions: sources
    follow_up_query,  \* deeper_research_topic: follow_up_query
    result,           \* main(): result, the dict the research call returned
    calls,            \* calls the provider clients received in this invocation
    files             \* names of the files written under output/

vars == <<env, pc, exa_client, cerebras_client, error, choice, query, results,
          follow_results, sources, follow_up_query, result, calls, files>>

(***************************** bounds ***************************************)

\* longest raw result list the search provider returns to a layer-1 search
MaxResults == 2

\* longest raw result list the search provider returns to the follow-up search
MaxFollowResults == 2

(***************************** strings **************************************)

\* the characters str.strip() removes when called without argument
Whitespace == {" ", "\n", "\t"}

QUOTE == "\""

RECURSIVE lstrip(_, _)
lstrip(s, chars) ==
    IF s # <<>> /\ Head(s) \in chars THEN lstrip(Tail(s), chars) ELSE s

RECURSIVE rstrip(_, _)
rstrip(s, chars) ==
    IF s # <<>> /\ s[Len(s)] \in chars
    THEN rstrip(SubSeq(s, 1, Len(s) - 1), chars)
    ELSE s

\* str.strip(chars) removing only the leading characters
strip_leading_only(s, chars) == lstrip(s, chars)

\* str.strip(chars): every leading and every trailing character in chars
strip(s, chars) == rstrip(lstrip(s, chars), chars)

\* str.lower() on the characters the save prompt can receive
lower(s) == [i \in 1..Len(s) |-> IF s[i] = "Y" THEN "y" ELSE IF s[i] = "N" THEN "n" ELSE s[i]]

Min(a, b) == IF a < b THEN a ELSE b

\* s[:n]
Take(s, n) == SubSeq(s, 1, Min(n, Len(s)))

(***************************** providers ************************************)

\* the marker f"[Follow-up] {result.title}" puts before a title
FollowUpMarker == <<"[Follow-up]", " ">>

\* the len(...) > 200 threshold of the three filtering loops
ContentThreshold == 200

\* num_results of the three search_web calls
NumResultsBasic == 5
NumResultsLayer1 == 6
NumResultsLayer2 == 4

\* sources[:4] and sources[:7], content[:400] and content[:300] in the prompts
ContextSources == 4
FinalContextSources == 7
BasicSnippet == 400
DeepSnippet == 300

Text(n) == [none |-> FALSE, len |-> n]

NoneText == [none |-> TRUE, len |-> 0]

\* raw results the search provider can return (title, text, url)
Candidates ==
    { [title |-> <<"Alpha">>,                   text |-> Text(201),  url |-> "u1"],
      [title |-> FollowUpMarker \o <<"Beta">>,  text |-> Text(1000), url |-> "u2"],
      [title |-> <<"Gamma">>,                   text |-> Text(200),  url |-> "u3"],
      [title |-> <<"Delta">>,                   text |-> NoneText,   url |-> "u4"],
      [title |-> <<"Epsilon">>,                 text |-> Text(0),    url |-> "u5"] }

\* raw results the search provider can return to the follow-up search
FollowCandidates ==
    { c \in Candidates : c.url \in {"u1", "u2", "u3"} }

SeqsUpTo(S, n) == UNION { [1..k -> S] : k \in 0..n }

\* what exa_client.search_and_contents does: raises, or returns result.results
SearchOutcomes(pool, n) ==
    { [failed |-> TRUE, results |-> <<>>] } \cup
    { [failed |-> FALSE, results |-> r] : r \in SeqsUpTo(pool, n) }

\* what cerebras_client.chat.completions.create returns to the follow-up prompt
FollowUpCompletions ==
    { <<>>,
      <<"topic">>,
      <<" ", QUOTE, "topic", QUOTE, "\n">>,
      <<QUOTE, QUOTE, "topic", QUOTE, QUOTE>>,
      <<QUOTE, "topic">>,
      <<QUOTE, " ", "topic", " ", QUOTE>>,
      <<"\t", QUOTE, QUOTE>>,
      <<"a", QUOTE, " ", "b">> }

\* what it returns to the analysis and final prompts
Narratives == { <<"SUMMARY:", " ", "text">> }

CompletionOutcomes(texts) ==
    { [failed |-> TRUE, text |-> <<>>] } \cup
    { [failed |-> FALSE, text |-> t] : t \in texts }

\* the string ask_ai returns when the provider raises
SENTINEL == <<"Error: Could not get AI response">>

\* ask_ai returning an empty string when the provider raises
ask_ai_empty_on_failure(outcome) == IF outcome.failed THEN <<>> ELSE outcome.text

\* search_web, lines 80-90: the provider's results, or [] when it raises
search_web(outcome) == IF outcome.failed THEN <<>> ELSE outcome.results

\* ask_ai, lines 102-112: the completion, or the sentinel when the provider raises
ask_ai(outcome) == IF outcome.failed THEN SENTINEL ELSE outcome.text

(***************************** filtering ************************************)

\* the filter with ">= 200"
keeps_at_least(text) ==
    (~text.none /\ text.len > 0) /\ text.len >= ContentThreshold

\* the filter with "if content:" alone
keeps_truthy_only(text) == ~text.none /\ text.len > 0

\* "content and len(content) > 200"
keeps(text) == (~text.none /\ text.len > 0) /\ text.len > ContentThreshold

\* the dict appended in research_topic and in layer 1
source_entry(r) == [title |-> r.title, content |-> r.text, url |-> r.url]

\* layer 2 appending the title as it is
follow_up_entry_unmarked(r) == [title |-> r.title, content |-> r.text, url |-> r.url]

\* the dict appended in layer 2
follow_up_entry(r) ==
    [title |-> FollowUpMarker \o r.title, content |-> r.text, url |-> r.url]

\* "for result in results: if ...: sources.append(...)" of research_topic and layer 1
RECURSIVE collect(_, _)
collect(raw, acc) ==
    IF raw = <<>> THEN acc
    ELSE collect(Tail(raw),
                 IF keeps(Head(raw).text) THEN Append(acc, source_entry(Head(raw)))
                 ELSE acc)

\* layer 2 collecting into a new list instead of the cumulative one
RECURSIVE collect_follow_up_fresh(_, _)
collect_follow_up_fresh(raw, acc) ==
    IF raw = <<>> THEN <<>>
    ELSE LET rest == collect_follow_up_fresh(Tail(raw), acc)
         IN IF Head(raw).text.none = FALSE /\ Head(raw).text.len > ContentThreshold
            THEN <<[title |-> FollowUpMarker \o Head(raw).title,
                    content |-> Head(raw).text, url |-> Head(raw).url]>> \o rest
            ELSE rest

\* "for result in follow_results: if ...: sources.append(...)" of layer 2
RECURSIVE collect_follow_up(_, _)
collect_follow_up(raw, acc) ==
    IF raw = <<>> THEN acc
    ELSE collect_follow_up(Tail(raw),
                 IF keeps(Head(raw).text) THEN Append(acc, follow_up_entry(Head(raw)))
                 ELSE acc)

(***************************** prompts **************************************)

\* source['content'][:width]
snippet(text, width) == [none |-> text.none, len |-> Min(text.len, width)]

\* "for i, source in enumerate(sources[:n], 1): context += title: content[:width]"
context(srcs, n, width) ==
    [i \in 1..Len(Take(srcs, n)) |->
        [title |-> srcs[i].title, content |-> snippet(srcs[i].content, width)]]

\* research_topic: prompt
analysis_prompt(q, srcs) ==
    [kind |-> "analysis", query |-> q, follow_up |-> <<>>,
     context |-> context(srcs, ContextSources, BasicSnippet)]

\* deeper_research_topic: follow_up_prompt
follow_up_prompt(q, srcs) ==
    [kind |-> "follow_up", query |-> q, follow_up |-> <<>>,
     context |-> context(srcs, ContextSources, DeepSnippet)]

\* deeper_research_topic: final_prompt
final_prompt(q, fq, srcs) ==
    [kind |-> "final", query |-> q, follow_up |-> fq,
     context |-> context(srcs, FinalContextSources, DeepSnippet)]

\* a call a provider client received
SearchCall(q, n, outcome) ==
    [api |-> "search", query |-> q, num_results |-> n, prompt |-> "",
     failed |-> outcome.failed, results |-> outcome.results, text |-> <<>>]

CompleteCall(p, outcome) ==
    [api |-> "complete", query |-> <<>>, num_results |-> 0, prompt |-> p,
     failed |-> outcome.failed, results |-> <<>>, text |-> outcome.text]

(***************************** results **************************************)

\* the dict both research functions return when no source is retained
no_sources_result == [summary |-> "No sources found", insights |-> <<>>, sources |-> 0]

\* the dict research_topic returns, lines 170-175
basic_result(q, srcs, response) ==
    [query |-> q, sources |-> Len(srcs), response |-> response, source_details |-> srcs]

\* deeper_research_topic returning the dict of research_topic
deep_result_without_follow_up(q, fq, srcs, response) ==
    [query |-> q, sources |-> Len(srcs), response |-> response, source_details |-> srcs]

\* deeper_research_topic counting from zero
deep_result_miscounted(q, fq, srcs, response) ==
    [query |-> q, follow_up_query |-> fq, sources |-> Len(srcs) - 1,
     response |-> response, source_details |-> srcs]

\* the dict deeper_research_topic returns, lines 252-258
deep_result(q, fq, srcs, response) ==
    [query |-> q, follow_up_query |-> fq, sources |-> Len(srcs),
     response |-> response, source_details |-> srcs]

\* main() before a research call has returned: no result
NoResult == <<>>

(***************************** configuration ********************************)

UNSET == "<unset>"

EXA_PLACEHOLDER == "your-exa-api-key"

CEREBRAS_PLACEHOLDER == "your-cerebras-api-key"

\* values a credential variable of the environment can have
ExaValues == {UNSET, EXA_PLACEHOLDER, "exa-key"}

CerebrasValues == {UNSET, CEREBRAS_PLACEHOLDER, "cerebras-key"}

\* os.getenv(name, default)
getenv(e, name, default) == IF e[name] = UNSET THEN default ELSE e[name]

EXA_ERROR == "Please configure EXA_API_KEY in .env file"

CEREBRAS_ERROR == "Please configure CEREBRAS_API_KEY in .env file"

\* the two checks of __init__ in the other order
validate_cerebras_first(exa_api_key, cerebras_api_key) ==
    IF cerebras_api_key = CEREBRAS_PLACEHOLDER THEN CEREBRAS_ERROR
    ELSE IF exa_api_key = EXA_PLACEHOLDER THEN EXA_ERROR
    ELSE "none"

\* the ValueError __init__ raises at lines 55-58, or "none"
validate(exa_api_key, cerebras_api_key) ==
    IF exa_api_key = EXA_PLACEHOLDER THEN EXA_ERROR
    ELSE IF cerebras_api_key = CEREBRAS_PLACEHOLDER THEN CEREBRAS_ERROR
    ELSE "none"

(***************************** persistence **********************************)

\* characters of the model's queries for which str.isalnum() is true
Alnum == {"A", "I"}

\* the [:50] of save_research
FilenameQueryLen == 50

\* "".join(c for c in s if c.isalnum() or c in (' ', '-', '_'))
RECURSIVE safe_chars(_)
safe_chars(s) ==
    IF s = <<>> THEN <<>>
    ELSE IF Head(s) \in Alnum \/ Head(s) \in {" ", "-", "_"}
         THEN <<Head(s)>> \o safe_chars(Tail(s))
         ELSE safe_chars(Tail(s))

\* str.replace(' ', '_')
underscored(s) == [i \in 1..Len(s) |-> IF s[i] = " " THEN "_" ELSE s[i]]

\* save_research, lines 271-275: the default filename
default_filename(q) ==
    <<"research_">>
      \o Take(underscored(rstrip(safe_chars(q), Whitespace)), FilenameQueryLen)
      \o <<".json">>

(***************************** main *****************************************)

\* what input() returns at the three prompts
RawChoices == { <<"1">>, <<" ", "2">>, <<"3", "\n">>, <<"9">>, <<>> }

RawQueries == { <<>>, <<" ">>, <<" ", "A", " ", "I", "!", " ">> }

RawSaves == { <<"y">>, <<"Y", " ">>, <<"n">>, <<>> }

Init ==
    /\ env \in [EXA_API_KEY : ExaValues, CEREBRAS_API_KEY : CerebrasValues]
    /\ pc = "start"
    /\ exa_client = "unset"
    /\ cerebras_client = "unset"
    /\ error = "none"
    /\ choice = <<>>
    /\ query = <<>>
    /\ results = <<>>
    /\ follow_results = <<>>
    /\ sources = <<>>
    /\ follow_up_query = <<>>
    /\ result = NoResult
    /\ calls = <<>>
    /\ files = {}

\* the locals of main() and of the research call are dead at the next iteration
NextIteration ==
    /\ pc' = "menu"
    /\ choice' = <<>>
    /\ query' = <<>>
    /\ results' = <<>>
    /\ follow_results' = <<>>
    /\ sources' = <<>>
    /\ follow_up_query' = <<>>
    /\ result' = NoResult
    /\ calls' = <<>>

\* the "except Exception" of main(), lines 349-351: print and leave
Caught(e) ==
    /\ error' = e
    /\ pc' = "done"

\* DeepResearchAssistant(): a credential is not configured, ValueError
ConstructRejected ==
    /\ pc = "start"
    /\ LET e == validate(getenv(env, "EXA_API_KEY", EXA_PLACEHOLDER),
                         getenv(env, "CEREBRAS_API_KEY", CEREBRAS_PLACEHOLDER))
       IN /\ e # "none"
          /\ Caught(e)
    /\ UNCHANGED <<env, exa_client, cerebras_client, choice, query, results,
                   follow_results, sources, follow_up_query, result, calls, files>>

\* DeepResearchAssistant(): both credentials pass; the clients are created in
\* the order Cerebras, Exa, and an exception of either constructor is re-raised
Construct ==
    /\ pc = "start"
    /\ validate(getenv(env, "EXA_API_KEY", EXA_PLACEHOLDER),
                getenv(env, "CEREBRAS_API_KEY", CEREBRAS_PLACEHOLDER)) = "none"
    /\ \E created \in {"none", "cerebras", "both"} :
         /\ cerebras_client' = IF created = "none" THEN "unset" ELSE "Cerebras"
         /\ exa_client' = IF created = "both" THEN "Exa" ELSE "unset"
         /\ IF created = "both"
            THEN pc' = "menu" /\ error' = error
            ELSE Caught("client initialization failed")
    /\ UNCHANGED <<env, choice, query, results, follow_results, sources,
                   follow_up_query, result, calls, files>>

\* main(), lines 301-308, 324, 342-347: the menu
Menu ==
    /\ pc = "menu"
    /\ \E raw \in RawChoices :
         /\ choice' = strip(raw, Whitespace)
         /\ pc' = IF choice' \in {<<"1">>, <<"2">>} THEN "query"
                  ELSE IF choice' = <<"3">> THEN "done"
                  ELSE "menu"
    /\ UNCHANGED <<env, exa_client, cerebras_client, error, query, results,
                   follow_results, sources, follow_up_query, result, calls, files>>

\* main(), lines 309-311 and 325-327: the query prompt
Query ==
    /\ pc = "query"
    /\ \E raw \in RawQueries :
         LET q == strip(raw, Whitespace)
         IN IF q # <<>>
            THEN /\ query' = q
                 /\ pc' = IF choice = <<"1">> THEN "research_topic"
                          ELSE "deeper_research_topic"
                 /\ UNCHANGED <<choice, results, follow_results, sources,
                                follow_up_query, result, calls>>
            ELSE NextIteration
    /\ UNCHANGED <<env, exa_client, cerebras_client, error, files>>

(***************************** research_topic *******************************)

\* research_topic, lines 127-145: search, filter, return early without sources
ResearchTopicSearch ==
    /\ pc = "research_topic"
    /\ \E o \in SearchOutcomes(Candidates, MaxResults) :
         /\ calls' = Append(calls, SearchCall(query, NumResultsBasic, o))
         /\ results' = search_web(o)
         /\ sources' = collect(results', <<>>)
         /\ IF sources' = <<>>
            THEN result' = no_sources_result /\ pc' = "display"
            ELSE result' = result /\ pc' = "research_topic_ask"
    /\ UNCHANGED <<env, exa_client, cerebras_client, error, choice, query,
                   follow_results, follow_up_query, files>>

\* research_topic, lines 147-175: prompt, completion, result
ResearchTopicAsk ==
    /\ pc = "research_topic_ask"
    /\ \E o \in CompletionOutcomes(Narratives) :
         /\ calls' = Append(calls, CompleteCall(analysis_prompt(query, sources), o))
         /\ result' = basic_result(query, sources, ask_ai(o))
    /\ pc' = "display"
    /\ UNCHANGED <<env, exa_client, cerebras_client, error, choice, query, results,
                   follow_results, sources, follow_up_query, files>>

(***************************** deeper_research_topic ************************)

\* deeper_research_topic, lines 190-203: layer 1
DeeperLayer1 ==
    /\ pc = "deeper_research_topic"
    /\ \E o \in SearchOutcomes(Candidates, MaxResults) :
         /\ calls' = Append(calls, SearchCall(query, NumResultsLayer1, o))
         /\ results' = search_web(o)
         /\ sources' = collect(results', <<>>)
         /\ IF sources' = <<>>
            THEN result' = no_sources_result /\ pc' = "display"
            ELSE result' = result /\ pc' = "deeper_follow_up"
    /\ UNCHANGED <<env, exa_client, cerebras_client, error, choice, query,
                   follow_results, follow_up_query, files>>

\* deeper_research_topic, lines 206-216: the follow-up query
DeeperFollowUp ==
    /\ pc = "deeper_follow_up"
    /\ \E o \in CompletionOutcomes(FollowUpCompletions) :
         /\ calls' = Append(calls, CompleteCall(follow_up_prompt(query, sources), o))
         /\ follow_up_query' = strip(strip(ask_ai(o), Whitespace), {QUOTE})
    /\ pc' = "deeper_layer2"
    /\ UNCHANGED <<env, exa_client, cerebras_client, error, choice, query, results,
                   follow_results, sources, result, files>>

\* deeper_research_topic, lines 219-230: layer 2
DeeperLayer2 ==
    /\ pc = "deeper_layer2"
    /\ \E o \in SearchOutcomes(FollowCandidates, MaxFollowResults) :
         /\ calls' = Append(calls, SearchCall(follow_up_query, NumResultsLayer2, o))
         /\ follow_results' = search_web(o)
         /\ sources' = collect_follow_up(follow_results', sources)
    /\ pc' = "deeper_final"
    /\ UNCHANGED <<env, exa_client, cerebras_client, error, choice, query, results,
                   follow_up_query, result, files>>

\* deeper_research_topic, lines 233-258: final synthesis and result
DeeperFinal ==
    /\ pc = "deeper_final"
    /\ \E o \in CompletionOutcomes(Narratives) :
         /\ calls' = Append(calls,
                CompleteCall(final_prompt(query, follow_up_query, sources), o))
         /\ result' = deep_result(query, follow_up_query, sources, ask_ai(o))
    /\ pc' = "display"
    /\ UNCHANGED <<env, exa_client, cerebras_client, error, choice, query, results,
                   follow_results, sources, follow_up_query, files>>

(***************************** display and save *****************************)

\* the keys main() reads from result at lines 315-317 and 331-335
DisplayedKeys == {"query", "sources", "response"}

\* main(), lines 312-318 and 328-336: result[...] raises KeyError on a missing key
Display ==
    /\ pc = "display"
    /\ IF DisplayedKeys \subseteq DOMAIN result
       THEN pc' = "save" /\ error' = error
       ELSE Caught("KeyError")
    /\ UNCHANGED <<env, exa_client, cerebras_client, choice, query, results,
                   follow_results, sources, follow_up_query, result, calls, files>>

\* main(), lines 320-322 and 338-340, and save_research
Save ==
    /\ pc = "save"
    /\ \E raw \in RawSaves :
         files' = IF lower(strip(raw, Whitespace)) = <<"y">>
                  THEN files \cup {default_filename(result.query)}
                  ELSE files
    /\ NextIteration
    /\ UNCHANGED <<env, exa_client, cerebras_client, error>>

Next ==
    \/ ConstructRejected
    \/ Construct
    \/ Menu
    \/ Query
    \/ ResearchTopicSearch
    \/ ResearchTopicAsk
    \/ DeeperLayer1
    \/ DeeperFollowUp
    \/ DeeperLayer2
    \/ DeeperFinal
    \/ Display
    \/ Save

Spec == Init /\ [][Next]_vars

(***************************** properties ***********************************)

\* a raw result whose text is present and longer than 200 characters
Survives(r) == r.text.none = FALSE /\ r.text.len >= ContentThreshold + 1

SurvivorIdx(raw) == { i \in 1..Len(raw) : Survives(raw[i]) }

\* the k-th raw result, in the order of the search, that survives
Survivor(raw, k) ==
    raw[CHOOSE i \in SurvivorIdx(raw) :
            Cardinality({ j \in SurvivorIdx(raw) : j <= i }) = k]

SinglePass == choice = <<"1">>

TwoPass == choice = <<"2">>

\* the research call has returned its dict to main()
Returned == pc \in {"display", "save"} \/ (pc = "done" /\ error = "KeyError")

\* what the search provider returned to the first and to the follow-up search
Layer1Raw == calls[1].results

Layer2Raw == calls[3].results

Layer1Count == Cardinality(SurvivorIdx(Layer1Raw))

\* C1: in both modes, when no result of the first search survives the
\* 200-character filter, the call returns the "No sources found" dict with a
\* source count of 0, and the first search is the only provider call made.
C1_ZeroSourcesShortCircuit ==
    (Len(calls) >= 1 /\ SurvivorIdx(Layer1Raw) = {}) =>
        /\ Returned
        /\ Len(calls) = 1
        /\ calls[1].api = "search"
        /\ "summary" \in DOMAIN result
        /\ result.summary = "No sources found"
        /\ result.sources = 0

\* two-pass call that returned with raw results, none of which survived
C1_Witness ==
    /\ TwoPass
    /\ pc = "display"
    /\ Len(calls) = 1
    /\ Len(Layer1Raw) = MaxResults
    /\ SurvivorIdx(Layer1Raw) = {}
    /\ result.sources = 0

\* C2 as stated: follow_up_query is a key of every returned result exactly
\* when the two-pass flow produced it.
C2_FollowUpIffTwoPass ==
    Returned => (("follow_up_query" \in DOMAIN result) <=> TwoPass)

\* C2 as amended: follow_up_query is a key of a returned result exactly when
\* the two-pass flow produced it and layer 1 retained at least one source.
C2_FollowUpIffTwoPassWithSources ==
    Returned =>
        (("follow_up_query" \in DOMAIN result) <=> (TwoPass /\ Layer1Count >= 1))

\* a two-pass result that lacks the key: layer 1 retained nothing
C2_Witness ==
    /\ TwoPass
    /\ pc = "display"
    /\ Layer1Count = 0
    /\ "follow_up_query" \notin DOMAIN result

\* C3: the source count of every returned result is the number of sources
\* retained: the survivors of layer 1 in single-pass, those of layer 1 and
\* layer 2 in two-pass, 0 in the zero-source result.
C3_SourceCountIsRetained ==
    Returned =>
        /\ result.sources = Len(sources)
        /\ result.sources =
             Layer1Count
               + (IF Len(calls) >= 3 THEN Cardinality(SurvivorIdx(Layer2Raw)) ELSE 0)
        /\ ("source_details" \in DOMAIN result =>
                result.sources = Len(result.source_details))

\* a two-pass result counting sources of both layers
C3_Witness ==
    /\ TwoPass
    /\ pc = "display"
    /\ Len(calls) = 4
    /\ Layer1Count = 2
    /\ Cardinality(SurvivorIdx(Layer2Raw)) = 1
    /\ result.sources = 3

\* C4: once the assistant is constructed, main() ends only through the exit
\* choice: every research call with a non-empty query is displayed, the save
\* prompt follows, and the menu is offered again.
C4_LoopEndsOnlyOnExit ==
    (exa_client = "Exa" /\ pc = "done") => (choice = <<"3">> /\ error = "none")

\* C5: a failure of the search provider is an empty result list and a failure
\* of the completion provider is the sentinel; the research call goes on with
\* that value: a failed first search returns the zero-source result, a failed
\* follow-up completion makes the sentinel the follow_up_query, which layer 2
\* searches and the final prompt carries, a failed follow-up search adds no
\* source, a failed final or analysis completion makes the sentinel the
\* response; the call raises nothing.
C5_FailuresBecomeDefaults ==
    /\ (Len(calls) >= 1 /\ calls[1].failed) =>
           /\ results = <<>>
           /\ sources = <<>>
           /\ result = no_sources_result
           /\ pc \in {"display", "done"}
    /\ (SinglePass /\ Len(calls) = 2 /\ calls[2].failed) =>
           /\ Returned
           /\ result.response = SENTINEL
           /\ result.sources = Layer1Count
    /\ (TwoPass /\ Len(calls) >= 2 /\ calls[2].failed) =>
           /\ follow_up_query = SENTINEL
           /\ pc \in {"deeper_layer2", "deeper_final", "display", "save"}
           /\ Len(calls) >= 3 =>
                  (calls[3].api = "search" /\ calls[3].query = SENTINEL)
           /\ Len(calls) >= 4 =>
                  /\ calls[4].api = "complete"
                  /\ calls[4].prompt.kind = "final"
                  /\ calls[4].prompt.follow_up = SENTINEL
                  /\ result.follow_up_query = SENTINEL
    /\ (TwoPass /\ Len(calls) >= 3 /\ calls[3].failed) =>
           /\ follow_results = <<>>
           /\ Len(sources) = Layer1Count
           /\ pc \in {"deeper_final", "display", "save"}
    /\ (TwoPass /\ Len(calls) = 4 /\ calls[4].failed) =>
           /\ Returned
           /\ result.response = SENTINEL
    /\ (pc \notin {"start", "done"}) => error = "none"

\* a two-pass call in which every provider call after layer 1 failed
C5_Witness ==
    /\ TwoPass
    /\ pc = "save"
    /\ Len(calls) = 4
    /\ calls[2].failed /\ calls[3].failed /\ calls[4].failed
    /\ result.follow_up_query = SENTINEL
    /\ result.response = SENTINEL

\* the title starts with the "[Follow-up] " marker
HasMarker(title) ==
    /\ Len(title) >= Len(FollowUpMarker)
    /\ SubSeq(title, 1, Len(FollowUpMarker)) = FollowUpMarker

\* C6 as stated: in a two-pass result every source of the follow-up search
\* has a title carrying the marker and no source of layer 1 has one.
C6_MarkerExactlyOnFollowUps ==
    (TwoPass /\ Returned /\ "source_details" \in DOMAIN result) =>
        \A k \in 1..Len(result.source_details) :
            HasMarker(result.source_details[k].title) <=> (k > Layer1Count)

\* C6 as amended: every source of the follow-up search has the marker
\* followed by its raw title, and every source of layer 1 has its raw title
\* unchanged, so that it carries the marker only if the raw title did.
C6_MarkerAddedOnlyToFollowUps ==
    (TwoPass /\ Returned /\ "source_details" \in DOMAIN result) =>
        \A k \in 1..Len(result.source_details) :
            IF k > Layer1Count
            THEN /\ HasMarker(result.source_details[k].title)
                 /\ result.source_details[k].title =
                      FollowUpMarker \o Survivor(Layer2Raw, k - Layer1Count).title
            ELSE result.source_details[k].title = Survivor(Layer1Raw, k).title

\* a two-pass result with a layer-1 source whose raw title has the marker,
\* a layer-1 source without it and a follow-up source
C6_Witness ==
    /\ TwoPass
    /\ pc = "display"
    /\ Len(calls) = 4
    /\ Len(result.source_details) = 3
    /\ Layer1Count = 2
    /\ HasMarker(result.source_details[1].title)
    /\ ~HasMarker(result.source_details[2].title)
    /\ HasMarker(result.source_details[3].title)

\* srcs[from + 1 .. ] holds exactly the survivors of raw, in the order of raw
RetainedInOrder(srcs, from, raw) ==
    /\ Len(srcs) = from + Cardinality(SurvivorIdx(raw))
    /\ \A k \in 1..Cardinality(SurvivorIdx(raw)) :
          /\ srcs[from + k].content = Survivor(raw, k).text
          /\ srcs[from + k].url = Survivor(raw, k).url

\* C7: each filtering pass retains a raw result if and only if its text is
\* present and longer than 200 characters, in the order of the search.
C7_FilterKeepsLongTextsInOrder ==
    /\ (Len(calls) \in {1, 2}) => RetainedInOrder(sources, 0, Layer1Raw)
    /\ (Len(calls) >= 3) =>
           /\ RetainedInOrder(SubSeq(sources, 1, Layer1Count), 0, Layer1Raw)
           /\ RetainedInOrder(sources, Layer1Count, Layer2Raw)

\* layer 1 retained two results in order; layer 2 dropped a 200-character
\* text and retained a longer one
C7_Witness ==
    /\ pc = "deeper_final"
    /\ Len(Layer1Raw) = 2 /\ Layer1Count = 2
    /\ Layer1Raw[1].url # Layer1Raw[2].url
    /\ Len(Layer2Raw) = 2
    /\ Layer2Raw[1].text = Text(ContentThreshold)
    /\ Survives(Layer2Raw[2])
    /\ Len(sources) = 3

\* the credential is missing from the environment or is its placeholder
ExaNotConfigured == env.EXA_API_KEY \in {UNSET, EXA_PLACEHOLDER}

CerebrasNotConfigured == env.CEREBRAS_API_KEY \in {UNSET, CEREBRAS_PLACEHOLDER}

\* C8: with either credential missing or a placeholder, construction raises
\* the configuration error, no client is created and no provider is called;
\* when the Exa credential is among them the error names EXA_API_KEY.
C8_UnconfiguredKeysRejected ==
    ((ExaNotConfigured \/ CerebrasNotConfigured) /\ pc # "start") =>
        /\ pc = "done"
        /\ error = (IF ExaNotConfigured THEN EXA_ERROR ELSE CEREBRAS_ERROR)
        /\ exa_client = "unset"
        /\ cerebras_client = "unset"
        /\ calls = <<>>

\* construction was rejected with both credentials not configured
C8_Witness ==
    /\ pc = "done"
    /\ env.EXA_API_KEY = EXA_PLACEHOLDER
    /\ env.CEREBRAS_API_KEY = CEREBRAS_PLACEHOLDER
    /\ error = EXA_ERROR

\* the string ask_ai returned to the follow-up prompt
FollowUpRaw == IF calls[2].failed THEN SENTINEL ELSE calls[2].text

\* part is full without a prefix and a suffix made of chars only, and part
\* neither starts nor ends with one of chars
IsTrimOf(part, full, chars) ==
    \E i \in 0..Len(full) : \E j \in i..Len(full) :
        /\ part = SubSeq(full, i + 1, j)
        /\ \A k \in 1..i : full[k] \in chars
        /\ \A k \in (j + 1)..Len(full) : full[k] \in chars
        /\ part # <<>> => (part[1] \notin chars /\ part[Len(part)] \notin chars)

\* s without one layer of quotes: at most one double quote off each end
WithoutOneQuoteLayer(s) ==
    LET a == IF s # <<>> /\ s[1] = QUOTE THEN Tail(s) ELSE s
    IN IF a # <<>> /\ a[Len(a)] = QUOTE THEN SubSeq(a, 1, Len(a) - 1) ELSE a

\* C9 as stated: follow_up_query is the completion without its surrounding
\* whitespace and without one layer of enclosing quotes.
C9_OneQuoteLayerRemoved ==
    (TwoPass /\ Len(calls) >= 2) =>
        \E t \in { SubSeq(FollowUpRaw, i, j) :
                     i \in 1..(Len(FollowUpRaw) + 1), j \in 0..Len(FollowUpRaw) } :
            /\ IsTrimOf(t, FollowUpRaw, Whitespace)
            /\ follow_up_query = WithoutOneQuoteLayer(t)

\* C9 as amended: follow_up_query is the completion without its surrounding
\* whitespace and then without every leading and every trailing double
\* quote; whatever it is, empty included, it is the query of the layer-2
\* search and the follow_up_query of the result.
C9_AllOuterQuotesRemoved ==
    (TwoPass /\ Len(calls) >= 2) =>
        /\ \E t \in { SubSeq(FollowUpRaw, i, j) :
                        i \in 1..(Len(FollowUpRaw) + 1), j \in 0..Len(FollowUpRaw) } :
              /\ IsTrimOf(t, FollowUpRaw, Whitespace)
              /\ IsTrimOf(follow_up_query, t, {QUOTE})
        /\ Len(calls) >= 3 =>
              (calls[3].api = "search" /\ calls[3].query = follow_up_query)
        /\ Returned => result.follow_up_query = follow_up_query

\* a completion wrapped in two layers of quotes became the bare topic, and a
\* later state shows it as the query of layer 2 and of the result
C9_Witness ==
    /\ TwoPass
    /\ pc = "display"
    /\ Len(calls) = 4
    /\ calls[2].failed = FALSE
    /\ calls[2].text = <<QUOTE, QUOTE, "topic", QUOTE, QUOTE>>
    /\ calls[3].query = <<"topic">>
    /\ result.follow_up_query = <<"topic">>

\* the dict of the k-th survivor of a layer-1 search
Layer1Entry(k) ==
    [title |-> Survivor(Layer1Raw, k).title,
     content |-> Survivor(Layer1Raw, k).text,
     url |-> Survivor(Layer1Raw, k).url]

\* C10: when layer 1 retains a source, a two-pass call makes the calls
\* search(query, 6), complete(follow-up prompt), search(follow_up_query, 4),
\* complete(final prompt), in this order and no other, and returns the
\* layer-1 sources unchanged and in order, followed by the layer-2 sources.
C10_TwoPassCallSequence ==
    (TwoPass /\ Len(calls) >= 1 /\ Layer1Count >= 1) =>
        /\ Len(calls) <= 4
        /\ Len(calls) = (CASE pc = "deeper_follow_up" -> 1
                           [] pc = "deeper_layer2" -> 2
                           [] pc = "deeper_final" -> 3
                           [] OTHER -> 4)
        /\ Returned <=> Len(calls) = 4
        /\ calls[1].api = "search"
        /\ calls[1].query = query
        /\ calls[1].num_results = NumResultsLayer1
        /\ Len(calls) >= 2 =>
              /\ calls[2].api = "complete"
              /\ calls[2].prompt.kind = "follow_up"
              /\ calls[2].prompt.query = query
        /\ Len(calls) >= 3 =>
              /\ calls[3].api = "search"
              /\ calls[3].query = follow_up_query
              /\ calls[3].num_results = NumResultsLayer2
        /\ Len(calls) >= 4 =>
              /\ calls[4].api = "complete"
              /\ calls[4].prompt.kind = "final"
              /\ calls[4].prompt.query = query
              /\ calls[4].prompt.follow_up = follow_up_query
              /\ Len(result.source_details) =
                    Layer1Count + Cardinality(SurvivorIdx(Layer2Raw))
              /\ \A k \in 1..Layer1Count :
                    result.source_details[k] = Layer1Entry(k)
              /\ \A k \in 1..Cardinality(SurvivorIdx(Layer2Raw)) :
                    result.source_details[Layer1Count + k].url
                        = Survivor(Layer2Raw, k).url

\* a two-pass result whose layer 2 retained nothing of what it was given,
\* after an empty follow-up query
C10_Witness ==
    /\ TwoPass
    /\ pc = "save"
    /\ Len(calls) = 4
    /\ Layer1Count = 2
    /\ follow_up_query = <<>>
    /\ Layer2Raw # <<>>
    /\ SurvivorIdx(Layer2Raw) = {}
    /\ Len(result.source_details) = 2

====
